---- MODULE Spec2Model ----
(***************************************************************************)
(* Model of src/main/services/download/utils.ts: the debounce wrapper, the *)
(* disk-space query, the recursive directory size, formatBytes and         *)
(* parseSizeToBytes.                                                       *)
(*                                                                         *)
(* Numbers.  The byte counts of formatBytes and parseSizeToBytes exceed    *)
(* 2^31, so integers are kept as exact little-endian sequences of          *)
(* base-1024 limbs ("Big"), most significant limb last and never zero;     *)
(* <<>> is 0.  A JavaScript number is an IEEE 754 double, a record         *)
(* [nan, inf, q, e] standing for q * 2^e.  Strings are sequences of        *)
(* one-character strings.                                                  *)
(***************************************************************************)
EXTENDS Integers, Sequences, FiniteSets, TLC

VARIABLES
    \* debounce
    wait, now, timeout, timers, invocations, calls,
    \* getDirectorySize
    tree, order, dirPath, stack, dirResult,
    \* parseSizeToBytes
    sizeString, parseResult,
    \* formatBytes (and the round trip through parseSizeToBytes)
    bytes, formatted, reparsed,
    \* getAvailableDiskSpace
    statfs, diskResult

vars == <<wait, now, timeout, timers, invocations, calls,
          tree, order, dirPath, stack, dirResult,
          sizeString, parseResult,
          bytes, formatted, reparsed,
          statfs, diskResult>>

debounceVars == <<wait, now, timeout, timers, invocations, calls>>
dirVars == <<tree, order, dirPath, stack, dirResult>>
parseVars == <<sizeString, parseResult>>
formatVars == <<bytes, formatted, reparsed>>
diskVars == <<statfs, diskResult>>

\* A result that has not been computed yet.
Pending == [state |-> "pending"]

(***************************************************************************)
(* Exact arithmetic on base-1024 limb sequences.                           *)
(***************************************************************************)
\* The factor between two consecutive units.
Kilo == 1024

\* Drop most-significant zero limbs.
BigNorm(x) ==
    IF \A i \in 1..Len(x) : x[i] = 0 THEN <<>>
    ELSE SubSeq(x, 1, CHOOSE k \in 1..Len(x) :
                          x[k] # 0 /\ \A j \in (k + 1)..Len(x) : x[j] = 0)

RECURSIVE SmallToBig(_)
\* The limbs of a natural.
SmallToBig(c) == IF c = 0 THEN <<>> ELSE <<c % Kilo>> \o SmallToBig(c \div Kilo)

RECURSIVE BigMulAddFrom(_, _, _, _, _)
\* The limbs lo..hi of x times k, with the carry c coming in: the limbs of the
\* product and the carry going out.  The range is halved, so that the depth of
\* the recursion is the logarithm of its length.
BigMulAddFrom(x, lo, hi, k, c) ==
    IF lo > hi THEN [limbs |-> <<>>, carry |-> c]
    ELSE IF lo = hi
    THEN LET t == x[lo] * k + c
         IN [limbs |-> <<t % Kilo>>, carry |-> t \div Kilo]
    ELSE LET mid == (lo + hi) \div 2
             low == BigMulAddFrom(x, lo, mid, k, c)
             high == BigMulAddFrom(x, mid + 1, hi, k, low.carry)
         IN [limbs |-> low.limbs \o high.limbs, carry |-> high.carry]

\* x * k + c for small naturals k and c.
BigMulAdd(x, k, c) ==
    LET r == BigMulAddFrom(x, 1, Len(x), k, c)
    IN BigNorm(r.limbs \o SmallToBig(r.carry))

BigMul(x, k) == BigMulAdd(x, k, 0)

RECURSIVE BigAddFrom(_, _, _, _, _)
\* The limbs lo..hi of x + y, with the carry c coming in.
BigAddFrom(x, y, lo, hi, c) ==
    IF lo > hi THEN [limbs |-> <<>>, carry |-> c]
    ELSE IF lo = hi
    THEN LET t == (IF lo <= Len(x) THEN x[lo] ELSE 0)
                  + (IF lo <= Len(y) THEN y[lo] ELSE 0) + c
         IN [limbs |-> <<t % Kilo>>, carry |-> t \div Kilo]
    ELSE LET mid == (lo + hi) \div 2
             low == BigAddFrom(x, y, lo, mid, c)
             high == BigAddFrom(x, y, mid + 1, hi, low.carry)
         IN [limbs |-> low.limbs \o high.limbs, carry |-> high.carry]

BigAdd(x, y) ==
    LET r == BigAddFrom(x, y, 1, IF Len(x) >= Len(y) THEN Len(x) ELSE Len(y), 0)
    IN BigNorm(r.limbs \o SmallToBig(r.carry))

\* x <= y for normalised x, y: by length, then by the most significant limb
\* in which they differ.
BigLeq(x, y) ==
    IF Len(x) # Len(y) THEN Len(x) < Len(y)
    ELSE IF x = y THEN TRUE
    ELSE LET i == CHOOSE k \in 1..Len(x) :
                      x[k] # y[k] /\ \A j \in (k + 1)..Len(x) : x[j] = y[j]
         IN x[i] < y[i]

RECURSIVE BigDivFrom(_, _, _, _, _)
\* Long division of the limbs hi down to lo of x by the small natural d, with
\* the remainder r coming in from above: the limbs of the quotient, the most
\* significant first, and the remainder.
BigDivFrom(x, d, lo, hi, r) ==
    IF lo > hi THEN [quot |-> <<>>, rem |-> r]
    ELSE IF lo = hi
    THEN LET t == r * Kilo + x[lo]
         IN [quot |-> <<t \div d>>, rem |-> t % d]
    ELSE LET mid == (lo + hi) \div 2
             high == BigDivFrom(x, d, mid + 1, hi, r)
             low == BigDivFrom(x, d, lo, mid, high.rem)
         IN [quot |-> high.quot \o low.quot, rem |-> low.rem]

BigDivMod(x, d) ==
    LET r == BigDivFrom(x, d, 1, Len(x), 0)
    IN [quot |-> BigNorm([i \in 1..Len(x) |-> r.quot[Len(x) + 1 - i]]),
        rem |-> r.rem]

RECURSIVE Pow1024(_)
\* 1024^i as a Big.
Pow1024(i) == IF i = 0 THEN <<1>> ELSE <<0>> \o Pow1024(i - 1)

(***************************************************************************)
(* Characters and strings.                                                 *)
(***************************************************************************)
DigitChars == <<"0", "1", "2", "3", "4", "5", "6", "7", "8", "9">>

IsDigit(c) == \E i \in 1..10 : DigitChars[i] = c
DigitVal(c) == (CHOOSE i \in 1..10 : DigitChars[i] = c) - 1
DigitChar(d) == DigitChars[d + 1]
\* A character outside printable ASCII is written by its code point, "U+212A"
\* (tab, line feed, form feed and carriage return are "\t", "\n", "\f", "\r").
\* WhiteSpace and LineTerminator of ECMAScript: what String.prototype.trim
\* strips and what the regular expression's \s matches.
SpaceChars ==
    {" ", "\t", "\n", "\r", "\f", "U+000B", "U+00A0", "U+FEFF", "U+1680",
     "U+2000", "U+2001", "U+2002", "U+2003", "U+2004", "U+2005", "U+2006",
     "U+2007", "U+2008", "U+2009", "U+200A", "U+2028", "U+2029", "U+202F",
     "U+205F", "U+3000"}
IsSpace(c) == c \in SpaceChars

\* The printable ASCII characters, from the space (32) to the tilde (126); the
\* grave accent (96), which no string of TLA+ holds, is written "U+0060".
Ascii ==
    <<" ", "!", "\"", "#", "$", "%", "&", "'", "(", ")", "*", "+", ",",
      "-", ".", "/", "0", "1", "2", "3", "4", "5", "6", "7", "8", "9", ":",
      ";", "<", "=", ">", "?", "@", "A", "B", "C", "D", "E", "F", "G", "H",
      "I", "J", "K", "L", "M", "N", "O", "P", "Q", "R", "S", "T", "U", "V",
      "W", "X", "Y", "Z", "[", "\\", "]", "^", "_", "U+0060", "a", "b",
      "c",
      "d", "e", "f", "g", "h", "i", "j", "k", "l", "m", "n", "o", "p", "q",
      "r", "s", "t", "u", "v", "w", "x", "y", "z", "{", "|", "}", "~">>

\* "A".."Z" and "a".."z", in the order of Ascii.
UpperChars == SubSeq(Ascii, 34, 59)
LowerChars == SubSeq(Ascii, 66, 91)

\* The letters outside ASCII that the model's strings hold: E with acute
\* (U+00C9, U+00E9), the capital I with dot above (U+0130), the sigmas (capital
\* U+03A3, final U+03C2, small U+03C3) and the Kelvin sign (U+212A).
Letters == {"U+00C9", "U+00E9", "U+0130", "U+03A3", "U+03C2", "U+03C3", "U+212A"}

\* The characters of the model's strings: printable ASCII, the white space of
\* ECMAScript, Letters and the combining dot above (U+0307).  The case
\* operations below are functions on Characters and say nothing of any other
\* character: the case mapping and the properties Cased and Case_Ignorable of
\* the rest of Unicode are those of the Unicode Character Database built into
\* the runtime and change with its version.  The Kelvin sign and U+0130 are
\* the only characters outside ASCII whose lower case holds an ASCII
\* character, so no other character can turn a string into one that the
\* regular expression of parseSizeToBytes matches.
Characters ==
    {Ascii[i] : i \in 1..Len(Ascii)} \cup SpaceChars \cup Letters \cup {"U+0307"}

\* The simple lower-case mappings of Letters.
LowerOf ==
    [c \in {"U+00C9", "U+03A3", "U+212A"} |->
        CASE c = "U+00C9" -> "U+00E9"
          [] c = "U+03A3" -> "U+03C3"
          [] c = "U+212A" -> "k"]

\* The characters with the property Cased, and with Case_Ignorable.
CasedChars ==
    {UpperChars[i] : i \in 1..Len(UpperChars)}
        \cup {LowerChars[i] : i \in 1..Len(LowerChars)} \cup Letters
CaseIgnorableChars == {"'", ".", ":", "^", "U+0060", "U+0307", "U+FEFF"}

Cased == [c \in Characters |-> c \in CasedChars]
CaseIgnorable == [c \in Characters |-> c \in CaseIgnorableChars]
IsCased(c) == Cased[c]
IsCaseIgnorable(c) == CaseIgnorable[c]

\* The lower case of one character, whatever is around it, as a string:
\* "A".."Z" lower to "a".."z", U+0130 to "i" and U+0307 (the only mapping to
\* two characters), a character of LowerOf to its image, any other to itself.
LowerCase ==
    [c \in Characters |->
        IF \E i \in 1..Len(UpperChars) : UpperChars[i] = c
        THEN <<LowerChars[CHOOSE i \in 1..Len(UpperChars) : UpperChars[i] = c]>>
        ELSE IF c = "U+0130" THEN <<"i", "U+0307">>
        ELSE IF c \in DOMAIN LowerOf THEN <<LowerOf[c]>>
        ELSE <<c>>]
LowerChar(c) == LowerCase[c]

RECURSIVE CasedLetterBefore(_, _)
\* Going back from s[i], case-ignorable characters and then a cased letter.
CasedLetterBefore(s, i) ==
    /\ i >= 1
    /\ IF IsCaseIgnorable(s[i]) THEN CasedLetterBefore(s, i - 1) ELSE IsCased(s[i])

RECURSIVE CasedLetterAfter(_, _)
\* Going on from s[i], case-ignorable characters and then a cased letter.
CasedLetterAfter(s, i) ==
    /\ i <= Len(s)
    /\ IF IsCaseIgnorable(s[i]) THEN CasedLetterAfter(s, i + 1) ELSE IsCased(s[i])

\* The condition Final_Sigma on the capital sigma s[i]: it ends a word.
FinalSigma(s, i) == CasedLetterBefore(s, i - 1) /\ ~CasedLetterAfter(s, i + 1)

\* The lower case of s[i] in s: the capital sigma U+03A3 lowers to the final
\* sigma U+03C2 at the end of a word, and to U+03C3 elsewhere.
LowerAt(s, i) ==
    IF s[i] = "U+03A3" /\ FinalSigma(s, i) THEN <<"U+03C2">> ELSE LowerChar(s[i])

RECURSIVE LowerFrom(_, _)
LowerFrom(s, i) == IF i > Len(s) THEN <<>> ELSE LowerAt(s, i) \o LowerFrom(s, i + 1)

\* String.prototype.toLowerCase
toLowerCase(s) == LowerFrom(s, 1)

RECURSIVE trimStart(_)
trimStart(s) ==
    IF s # <<>> /\ IsSpace(Head(s)) THEN trimStart(Tail(s)) ELSE s

RECURSIVE trimEnd(_)
trimEnd(s) ==
    IF s # <<>> /\ IsSpace(s[Len(s)]) THEN trimEnd(SubSeq(s, 1, Len(s) - 1)) ELSE s

\* String.prototype.trim
trim(s) == trimEnd(trimStart(s))

RECURSIVE DigitsToBig(_, _)
\* The value of a string of decimal digits, most significant first.
DigitsToBig(s, acc) ==
    IF s = <<>> THEN acc
    ELSE LET next == BigMulAdd(acc, 10, DigitVal(Head(s)))
         IN IF next = <<>> THEN DigitsToBig(Tail(s), <<>>)
            ELSE DigitsToBig(Tail(s), next)

RECURSIVE SmallDigits(_, _)
\* The decimal digits of the natural n, with zeros in front up to w digits.
SmallDigits(n, w) ==
    IF n < 10 /\ w <= 1 THEN <<DigitChar(n)>>
    ELSE SmallDigits(n \div 10, w - 1) \o <<DigitChar(n % 10)>>

RECURSIVE BigToDigits(_)
\* The decimal digits of a Big, most significant first; 0 is "0".  They are
\* taken six at a time.
BigToDigits(x) ==
    LET qr == BigDivMod(x, 1000000)
    IN IF qr.quot = <<>> THEN SmallDigits(qr.rem, 1)
       ELSE BigToDigits(qr.quot) \o SmallDigits(qr.rem, 6)

(***************************************************************************)
(* JavaScript numbers: IEEE 754 doubles.  A finite double is q * 2^e with  *)
(* q a Big of at most 53 bits, kept odd (or q = 0 and e = 0) so that equal *)
(* numbers are equal records; e is at least -1074 and q * 2^e is below     *)
(* 2^1024.                                                                 *)
(***************************************************************************)
NaN == [nan |-> TRUE, inf |-> FALSE, q |-> <<>>, e |-> 0]
Infinity == [nan |-> FALSE, inf |-> TRUE, q |-> <<>>, e |-> 0]
Double(q, e) == [nan |-> FALSE, inf |-> FALSE, q |-> q, e |-> e]
Zero == Double(<<>>, 0)
isNaN(x) == x.nan
IsZero(x) == x = Zero

RECURSIVE Pow2(_)
Pow2(k) == IF k = 0 THEN 1 ELSE 2 * Pow2(k - 1)

RECURSIVE BitLenSmall(_)
BitLenSmall(n) == IF n = 0 THEN 0 ELSE 1 + BitLenSmall(n \div 2)

\* The bits of one limb.
LimbBits == BitLenSmall(Kilo - 1)

\* The number of bits of x: 2^(BitLen(x) - 1) <= x < 2^BitLen(x), 0 for 0.
BitLen(x) ==
    IF x = <<>> THEN 0 ELSE LimbBits * (Len(x) - 1) + BitLenSmall(x[Len(x)])

RECURSIVE TrailingZerosSmall(_)
TrailingZerosSmall(n) == IF n % 2 = 1 THEN 0 ELSE 1 + TrailingZerosSmall(n \div 2)

\* The number of zero bits x # 0 ends with.
TrailingZeros(x) ==
    LET i == CHOOSE k \in 1..Len(x) : x[k] # 0 /\ \A j \in 1..(k - 1) : x[j] = 0
    IN LimbBits * (i - 1) + TrailingZerosSmall(x[i])

\* x * 2^k
BigShl(x, k) ==
    IF x = <<>> THEN <<>>
    ELSE [i \in 1..(k \div LimbBits) |-> 0] \o BigMul(x, Pow2(k % LimbBits))

\* floor(x / 2^k), and whether bits were lost.
BigShr(x, k) ==
    LET limbs == k \div LimbBits
        d == BigDivMod(SubSeq(x, limbs + 1, Len(x)), Pow2(k % LimbBits))
    IN [quot |-> d.quot,
        sticky |-> d.rem # 0 \/ \E j \in 1..limbs : j <= Len(x) /\ x[j] # 0]

RECURSIVE DivPow10(_, _)
\* floor(x / 10^s), and whether a remainder was lost.
DivPow10(x, s) ==
    IF s = 0 THEN [quot |-> x, sticky |-> FALSE]
    ELSE LET d == BigDivMod(x, 10)
         IN IF d.rem # 0 THEN [DivPow10(d.quot, s - 1) EXCEPT !.sticky = TRUE]
            ELSE DivPow10(d.quot, s - 1)

RECURSIVE TimesPow10(_, _)
\* x * 10^j, six powers at a time.
TimesPow10(x, j) ==
    IF j = 0 THEN x
    ELSE LET step == IF j >= 6 THEN 6 ELSE 1
             y == BigMul(x, IF step = 6 THEN 1000000 ELSE 10)
         IN IF y = <<>> THEN <<>> ELSE TimesPow10(y, j - step)

BigPow10(s) == TimesPow10(<<1>>, s)

Max(a, b) == IF a >= b THEN a ELSE b

\* Round to nearest, ties to even: q2 is twice the quotient plus the next bit,
\* sticky tells whether anything below that bit was lost.
RoundHalfEven(q2, sticky) ==
    LET h == BigDivMod(q2, 2)
        odd == h.quot # <<>> /\ h.quot[1] % 2 = 1
    IN IF h.rem = 1 /\ (sticky \/ odd) THEN BigMulAdd(h.quot, 1, 1) ELSE h.quot

\* The double q * 2^e of a rounded q: Infinity from 2^1024 on, else canonical.
Finish(q, e) ==
    IF q = <<>> THEN Zero
    ELSE IF BitLen(q) + e > 1024 THEN Infinity
    ELSE LET tz == TrailingZeros(q)
         IN Double(BigShr(q, tz).quot, e + tz)

\* The double nearest to n * 2^e: 53 bits are kept, fewer below 2^-1022.
RoundDyadic(n, e) ==
    LET sh == Max(Max(BitLen(n) - 53, (0 - 1074) - e), 0)
    IN IF n = <<>> THEN Zero
       ELSE IF sh = 0 THEN Finish(n, e)
       ELSE LET a == BigShr(n, sh - 1)
            IN Finish(RoundHalfEven(a.quot, a.sticky), e + sh)

\* The double nearest to the decimal m / 10^s: what a numeric literal denotes.
ToDouble(m, s) ==
    IF m = <<>> THEN Zero
    ELSE IF s = 0 THEN RoundDyadic(m, 0)
    ELSE LET D == BigPow10(s)
             L0 == BitLen(m) - BitLen(D)
             ge == IF L0 >= 0 THEN BigLeq(BigShl(D, L0), m)
                   ELSE BigLeq(D, BigShl(m, 0 - L0))
             \* 2^L <= m / 10^s < 2^(L + 1)
             L == IF ge THEN L0 ELSE L0 - 1
             e == Max(L - 52, 0 - 1074)
             f == e - 1
             d == DivPow10(IF f < 0 THEN BigShl(m, 0 - f) ELSE m, s)
             a == IF f > 0 THEN BigShr(d.quot, f) ELSE [quot |-> d.quot, sticky |-> FALSE]
         IN Finish(RoundHalfEven(a.quot, d.sticky \/ a.sticky), e)

\* The product x * k of a double and a small natural.
NumTimes(x, k) ==
    IF x.nan \/ x.inf THEN x ELSE RoundDyadic(BigMul(x.q, k), x.e)

\* An argument passed to parseSizeToBytes: a string, or something else.
Str(s) == [type |-> "string", str |-> s, truthy |-> s # <<>>]
NonString(t, truthy) == [type |-> t, str |-> <<>>, truthy |-> truthy]

RECURSIVE LeadingDigits(_)
\* How many decimal digits s starts with.
LeadingDigits(s) ==
    IF s # <<>> /\ IsDigit(Head(s)) THEN 1 + LeadingDigits(Tail(s)) ELSE 0

\* parseFloat on a string of digits and dots: the value of the longest prefix
\* that is a decimal literal (digits, then optionally a dot and digits; or a
\* dot and at least one digit), NaN when there is none.  What follows the
\* literal is ignored.
parseFloat(s) ==
    LET intLen == LeadingDigits(s)
        hasDot == intLen < Len(s) /\ s[intLen + 1] = "."
        fracLen == IF hasDot THEN LeadingDigits(SubSeq(s, intLen + 2, Len(s))) ELSE 0
        digits == SubSeq(s, 1, intLen) \o SubSeq(s, intLen + 2, intLen + 1 + fracLen)
    IN IF intLen = 0 /\ fracLen = 0 THEN NaN
       ELSE ToDouble(DigitsToBig(digits, <<>>), fracLen)

(***************************************************************************)
(* parseSizeToBytes                                                        *)
(***************************************************************************)
\* The alternatives of the regular expression's second group.
UnitTokens == {<<"m", "b">>, <<"g", "b">>, <<"k", "b">>, <<"b">>}

\* [\d.]
IsNumChar(c) == IsDigit(c) \/ c = "."

NoMatch == [matched |-> FALSE, numStr |-> <<>>, unit |-> <<>>]

\* trimmed.match(/^([\d.]+)\s*(mb|gb|kb|b)$/): the three parts cover the whole
\* string; the character classes are disjoint, so the split is unique.
match(trimmed) ==
    LET n == Len(trimmed)
        splits == {p \in (1..n) \X (1..n) :
                     /\ p[1] <= p[2]
                     /\ \A k \in 1..p[1] : IsNumChar(trimmed[k])
                     /\ \A k \in (p[1] + 1)..p[2] : IsSpace(trimmed[k])
                     /\ SubSeq(trimmed, p[2] + 1, n) \in UnitTokens}
    IN IF splits = {} THEN NoMatch
       ELSE LET p == CHOOSE q \in splits : TRUE
            IN [matched |-> TRUE,
                numStr |-> SubSeq(trimmed, 1, p[1]),
                unit |-> SubSeq(trimmed, p[2] + 1, n)]

\* What a call returns and what it passed to console.warn.
Outcome(value, warnings) == [state |-> "done", value |-> value, warnings |-> warnings]

\* Lines 94-96: a falsy or non-string argument.
onNotAString(arg) == Outcome(Zero, <<>>)

\* Lines 101-104: the pattern did not match.
onNoMatch(arg) == Outcome(Zero, <<[msg |-> "Could not parse size string", arg |-> arg]>>)

\* Lines 109-112: the numeric portion parsed to NaN.
onNaN(arg) == Outcome(Zero, <<[msg |-> "Invalid number in size string", arg |-> arg]>>)

\* The switch with a decimal kilobyte: kb multiplies by 1000.
toBytes_DecimalKb(num, unit, arg) ==
    CASE unit = <<"b">> -> Outcome(num, <<>>)
      [] unit = <<"k", "b">> -> Outcome(NumTimes(num, 1000), <<>>)
      [] unit = <<"m", "b">> -> Outcome(NumTimes(NumTimes(num, Kilo), Kilo), <<>>)
      [] unit = <<"g", "b">> ->
            Outcome(NumTimes(NumTimes(NumTimes(num, Kilo), Kilo), Kilo), <<>>)
      [] OTHER -> Outcome(Zero, <<[msg |-> "Unknown unit in size string", arg |-> arg]>>)

\* Lines 114-126: the switch on the unit.
toBytes(num, unit, arg) ==
    CASE unit = <<"b">> -> Outcome(num, <<>>)
      [] unit = <<"k", "b">> -> Outcome(NumTimes(num, Kilo), <<>>)
      [] unit = <<"m", "b">> -> Outcome(NumTimes(NumTimes(num, Kilo), Kilo), <<>>)
      [] unit = <<"g", "b">> ->
            Outcome(NumTimes(NumTimes(NumTimes(num, Kilo), Kilo), Kilo), <<>>)
      [] OTHER -> Outcome(Zero, <<[msg |-> "Unknown unit in size string", arg |-> arg]>>)

\* parseSizeToBytes without the toLowerCase of line 98.
parseSizeToBytes_CaseSensitive(arg) ==
    IF ~arg.truthy \/ arg.type # "string" THEN onNotAString(arg)
    ELSE LET trimmed == trim(arg.str)
             mt == match(trimmed)
         IN IF ~mt.matched THEN onNoMatch(arg)
            ELSE LET num == parseFloat(mt.numStr)
                 IN IF isNaN(num) THEN onNaN(arg)
                    ELSE toBytes(num, mt.unit, arg)

parseSizeToBytes(arg) ==
    IF ~arg.truthy \/ arg.type # "string" THEN onNotAString(arg)
    ELSE LET trimmed == toLowerCase(trim(arg.str))
             mt == match(trimmed)
         IN IF ~mt.matched THEN onNoMatch(arg)
            ELSE LET num == parseFloat(mt.numStr)
                 IN IF isNaN(num) THEN onNaN(arg)
                    ELSE toBytes(num, mt.unit, arg)

(***************************************************************************)
(* Each function is exercised by a specification of its own; the variables *)
(* of the other functions stay at these values.                            *)
(***************************************************************************)
DebounceIdle ==
    /\ wait = 0 /\ now = 0 /\ timeout = 0
    /\ timers = {} /\ invocations = <<>> /\ calls = <<>>
DirIdle ==
    tree = <<>> /\ order = <<>> /\ dirPath = 0 /\ stack = <<>> /\ dirResult = Pending
ParseIdle == sizeString = Str(<<>>) /\ parseResult = Pending
FormatIdle == bytes = <<>> /\ formatted = Pending /\ reparsed = Pending
DiskIdle == statfs = Pending /\ diskResult = Pending

(***************************************************************************)
(* Specification of parseSizeToBytes: one call on an argument drawn from   *)
(* every string of at most MaxLen characters of Alphabet, the examples of  *)
(* the documentation, and arguments that are not strings.                  *)
(***************************************************************************)
MaxLen == 4
Alphabet == {"0", "1", ".", " ", "k", "m", "g", "b", "t", "M", "B"}
Strings == UNION {[1..n -> Alphabet] : n \in 0..MaxLen}
Examples ==
    { <<"1", "5", "0", "0", " ", "M", "B">>,
      <<"2", ".", "5", " ", "G", "B">>,
      <<"1", "0", "M", "B">>,
      <<"1", "0", " ", "T", "B">>,
      <<"a", "b", "c">>,
      <<"1", ".", "2", ".", "3", " ", "M", "B">>,
      <<" ", "1", "2", "\t", " ", "k", "B", "\n">>,
      <<"1", "0", " ", "M", "B", "s">>,
      <<"1", " ", "0", "M", "B">>,
      <<"1", " ", "U+212A", "b">>,
      <<"1", "U+0130", "b">>,
      <<"\f", "1", "U+00A0", "k", "b", "U+000B">>,
      <<"U+FEFF", "2", "U+2028", "g", "b", "U+3000">>,
      <<"1", " ", "U+00C9", "b">>,
      <<"1", " ", "K", "U+00C9">>,
      <<"1", "M", "U+03A3">>,
      <<"9", "0", "0", "7", "1", "9", "9", "2", "5", "4", "7", "4", "0", "9", "9", "3", " ", "b">>,
      <<"1", ".", "0", "0", "0", "0", "0", "0", "0", "0", "0", "0", "0", "0", "0", "0", "0", "1", " ", "k", "b">>,
      <<"1", "2", "3", "4", "5", "6", "7", "8", "9", ".", "1", "2", "3", "4", "5", "6", "7", "8", "9", " ", "b">> }
SizeArguments ==
    {Str(s) : s \in Strings \cup Examples}
    \cup {NonString("undefined", FALSE), NonString("object", FALSE),
          NonString("number", TRUE), NonString("number", FALSE),
          NonString("object", TRUE)}

InitParse ==
    /\ sizeString \in SizeArguments
    /\ parseResult = Pending
    /\ DebounceIdle /\ DirIdle /\ FormatIdle /\ DiskIdle

CallParseSizeToBytes ==
    /\ parseResult = Pending
    /\ parseResult' = parseSizeToBytes(sizeString)
    /\ UNCHANGED <<sizeString, debounceVars, dirVars, formatVars, diskVars>>

NextParse == CallParseSizeToBytes

SpecParse == InitParse /\ [][NextParse]_vars

(***************************************************************************)
(* The size strings the documentation calls well formed, stated without    *)
(* the regular expression: a decimal number, optional whitespace, a unit.  *)
(***************************************************************************)
\* An integer or decimal number: digits with at most one decimal point.
ValidNumber(t) ==
    /\ \A k \in 1..Len(t) : IsNumChar(t[k])
    /\ \E k \in 1..Len(t) : IsDigit(t[k])
    /\ Cardinality({k \in 1..Len(t) : t[k] = "."}) <= 1

\* The decimal m / 10^s a valid number stands for.
DecimalValue(t) ==
    LET dots == {k \in 1..Len(t) : t[k] = "."}
    IN [m |-> DigitsToBig(SelectSeq(t, IsDigit), <<>>),
        s |-> IF dots = {} THEN 0 ELSE Len(t) - (CHOOSE k \in dots : TRUE)]

\* The power of 1024 each unit stands for.
UnitPower == [u \in UnitTokens |->
                CASE u = <<"b">> -> 0 [] u = <<"k", "b">> -> 1
                  [] u = <<"m", "b">> -> 2 [] u = <<"g", "b">> -> 3]

\* The ways t splits into number, whitespace and unit.
Readings(t) ==
    {p \in (1..Len(t)) \X (1..Len(t)) :
        /\ p[1] <= p[2]
        /\ ValidNumber(SubSeq(t, 1, p[1]))
        /\ \A k \in (p[1] + 1)..p[2] : IsSpace(t[k])
        /\ SubSeq(t, p[2] + 1, Len(t)) \in UnitTokens}

WellFormed(arg) ==
    arg.type = "string" /\ Readings(toLowerCase(trim(arg.str))) # {}

\* The double x * 1024^p (the product is exact, or Infinity from 2^1024 on).
TimesPow1024(x, p) ==
    IF x.nan \/ x.inf \/ x = Zero THEN x
    ELSE IF BitLen(x.q) + x.e + LimbBits * p > 1024 THEN Infinity
    ELSE Double(x.q, x.e + LimbBits * p)

\* n times the multiplier of u, for a well-formed argument, n being the number
\* its numeral denotes: the double nearest to it.
ExpectedBytes(arg) ==
    LET t == toLowerCase(trim(arg.str))
        p == CHOOSE q \in Readings(t) : TRUE
        n == DecimalValue(SubSeq(t, 1, p[1]))
        e == UnitPower[SubSeq(t, p[2] + 1, Len(t))]
    IN TimesPow1024(ToDouble(n.m, n.s), e)

\* C5: parseSizeToBytes returns 0 for every argument that is not a string, is
\* empty, or whose trimmed form is not a valid number, optional whitespace and
\* a unit of {b, kb, mb, gb}.
C5_FailureReturnsZero ==
    parseResult # Pending /\ ~WellFormed(sizeString) => IsZero(parseResult.value)

\* C6: every call that returns 0 for an argument that is empty, not a string
\* or not well formed logged a warning.
C6_EveryFailureWarns ==
    parseResult # Pending /\ ~WellFormed(sizeString) /\ IsZero(parseResult.value)
        => parseResult.warnings # <<>>

\* C7: a well-formed argument yields its number times the multiplier of its
\* unit, whatever the letter case and the whitespace around and inside.
C7_WellFormedValue ==
    parseResult # Pending /\ WellFormed(sizeString)
        => /\ parseResult.value = ExpectedBytes(sizeString)
           /\ parseResult.warnings = <<>>

\* "1500 MB" gave 1500 * 1024 * 1024 = 375 * 2^22.
C7_Witness ==
    /\ parseResult # Pending
    /\ sizeString = Str(<<"1", "5", "0", "0", " ", "M", "B">>)
    /\ parseResult.value = Double(<<375>>, 22)

(***************************************************************************)
(* formatBytes                                                             *)
(***************************************************************************)
units == << <<"B">>, <<"K", "B">>, <<"M", "B">>, <<"G", "B">>, <<"T", "B">> >>

\* A non-negative binary fraction: int is the integer part (a Big), frac the
\* base-1024 digits after the point, most significant first.  Dividing a
\* double by 1024 only lowers its exponent, so the quotient is exact.
Fixed(int, frac) == [int |-> int, frac |-> frac]

\* size > 1024: the comparison made strict.
AtLeastKilo_Strict(size) ==
    /\ Len(size.int) >= 2
    /\ ~(size.int = <<0, 1>> /\ \A k \in 1..Len(size.frac) : size.frac[k] = 0)

\* size >= 1024
AtLeastKilo(size) == Len(size.int) >= 2

\* size /= 1024, for size >= 1024
DivideByKilo(size) == Fixed(Tail(size.int), <<Head(size.int)>> \o size.frac)

RECURSIVE scale(_, _)
\* Lines 80-83: the loop, from the state (size, unitIndex).
scale(size, unitIndex) ==
    IF AtLeastKilo(size) /\ unitIndex < Len(units) - 1
    THEN scale(DivideByKilo(size), unitIndex + 1)
    ELSE [size |-> size, unitIndex |-> unitIndex]

RECURSIVE TenTimesFrac(_, _)
\* Ten times the fraction whose digits are frac[1..i]: the integer carry and
\* the first base-1024 digit after the point.
TenTimesFrac(frac, i) ==
    IF i > Len(frac) THEN [carry |-> 0, first |-> 0]
    ELSE LET t == 10 * frac[i] + TenTimesFrac(frac, i + 1).carry
         IN [carry |-> t \div Kilo, first |-> t % Kilo]

RECURSIVE DropZeros(_)
\* A string of digits without the zeros it ends with.
DropZeros(ds) ==
    IF Len(ds) > 1 /\ ds[Len(ds)] = "0" THEN DropZeros(SubSeq(ds, 1, Len(ds) - 1))
    ELSE ds

\* The first power of ten that toFixed writes as ToString does.
ExponentialFrom == 21

RECURSIVE Shortest(_, _, _)
\* Number::toString on the integer double v with the decimal digits ds, from
\* k digits on: the fewest digits s, k or more, for which s * 10^j is a number
\* that rounds to v, and of two such s the one nearer to v (the even one when
\* v is half way); n is the number of digits of s * 10^j.
Shortest(v, ds, k) ==
    LET j == Len(ds) - k
        lo == DigitsToBig(SubSeq(ds, 1, k), <<>>)
        hi == BigAdd(lo, <<1>>)
        loOk == RoundDyadic(TimesPow10(lo, j), 0) = RoundDyadic(v, 0)
        hiOk == RoundDyadic(TimesPow10(hi, j), 0) = RoundDyadic(v, 0)
        twice == BigMul(v, 2)
        mid == TimesPow10(BigMulAdd(lo, 2, 1), j)
        loNearer == IF twice = mid THEN lo[1] % 2 = 0 ELSE BigLeq(twice, mid)
        s == IF loOk /\ (~hiOk \/ loNearer) THEN lo ELSE hi
    IN IF loOk \/ hiOk
       THEN [digits |-> DropZeros(BigToDigits(s)), n |-> Len(BigToDigits(s)) + j]
       ELSE Shortest(v, ds, k + 1)

\* Number::toString of an integer double v >= 10^21: the digits of Shortest, a
\* point after the first when there are more, "e+" and the exponent n - 1.
NumberToString(v) ==
    LET r == Shortest(v, BigToDigits(v), 1)
    IN <<Head(r.digits)>>
           \o (IF Len(r.digits) > 1 THEN <<".">> \o Tail(r.digits) ELSE <<>>)
           \o <<"e", "+">> \o BigToDigits(BigMulAdd(<<>>, 1, r.n - 1))

\* Number.prototype.toFixed(1).  Below 10^21: the integer n nearest to
\* 10 * size, the larger one on a tie, written with its last digit after the
\* point.  From 10^21 on, where a double is an integer: ToString(size).
toFixed1(size) ==
    LET f == TenTimesFrac(size.frac, 1)
        half == Kilo \div 2
        n == BigMulAdd(size.int, 10, f.carry + (IF f.first >= half THEN 1 ELSE 0))
        qr == BigDivMod(n, 10)
    IN IF BigLeq(BigPow10(ExponentialFrom), size.int) THEN NumberToString(size.int)
       ELSE BigToDigits(qr.quot) \o <<".", DigitChar(qr.rem)>>

formatBytes(b) ==
    LET r == scale(Fixed(b, <<>>), 0)
    IN toFixed1(r.size) \o <<" ">> \o units[r.unitIndex + 1]

(***************************************************************************)
(* Specification of formatBytes: one call on a byte count, then the string *)
(* it returned is handed to parseSizeToBytes.  The byte counts are the     *)
(* exact multiples k * 1024^i of every unit, all counts of at most         *)
(* MaxLimbs base-1024 digits drawn from LimbSamples, and counts on both    *)
(* sides of 10^21 TB, where toFixed changes its notation.                  *)
(***************************************************************************)
MaxLimbs == 6
LimbSamples == {0, 1, 52, 512, 1023}
ExactMultiples ==
    {SubSeq(Pow1024(i), 1, i) \o <<k>> : k \in 1..(Kilo - 1), i \in 0..(Len(units) - 1)}
\* An integer that is a double: at most 53 bits from its first to its last 1.
IsDoubleInteger(b) == b = <<>> \/ BitLen(b) - TrailingZeros(b) <= 53
SampledCounts ==
    {b \in UNION {[1..n -> LimbSamples] : n \in 0..MaxLimbs} :
        BigNorm(b) = b /\ IsDoubleInteger(b)}
\* The integer double nearest to the integer n.
NearestDouble(n) == LET d == RoundDyadic(n, 0) IN BigShl(d.q, d.e)
\* k * 10^j TB and 2^i bytes around 10^21 TB = 2^109.8 bytes, as doubles.
LargeFactors == {1, 2, 5, 9, 15, 99, 123, 999}
LargeCounts ==
    {NearestDouble(BigShl(TimesPow10(<<k>>, j), 40)) :
        k \in LargeFactors, j \in (ExponentialFrom - 3)..(ExponentialFrom + 2)}
        \cup {BigShl(<<1>>, i) : i \in 108..112}
ByteCounts == ExactMultiples \cup SampledCounts \cup LargeCounts

InitFormat ==
    /\ bytes \in ByteCounts
    /\ formatted = Pending
    /\ reparsed = Pending
    /\ DebounceIdle /\ DirIdle /\ ParseIdle /\ DiskIdle

CallFormatBytes ==
    /\ formatted = Pending
    /\ formatted' = [state |-> "done", str |-> formatBytes(bytes)]
    /\ UNCHANGED <<bytes, reparsed, debounceVars, dirVars, parseVars, diskVars>>

CallParseOfFormatted ==
    /\ formatted # Pending
    /\ reparsed = Pending
    /\ reparsed' = parseSizeToBytes(Str(formatted.str))
    /\ UNCHANGED <<bytes, formatted, debounceVars, dirVars, parseVars, diskVars>>

NextFormat == CallFormatBytes \/ CallParseOfFormatted

SpecFormat == InitFormat /\ [][NextFormat]_vars

\* The index in units of the unit a formatted string ends with, read off the
\* string: the characters after its space.
UnitIndexOf(str) ==
    LET sp == CHOOSE k \in 1..Len(str) : str[k] = " "
    IN (CHOOSE i \in 1..Len(units) : units[i] = SubSeq(str, sp + 1, Len(str))) - 1

\* i is the largest index of units with b / 1024^i >= 1.
LargestUnit(b, i) ==
    /\ BigLeq(Pow1024(i), b)
    /\ i < Len(units) - 1 => ~BigLeq(Pow1024(i + 1), b)

\* C8: for every non-negative integer b, formatBytes(b) names the largest unit
\* of {B, KB, MB, GB, TB} with b / 1024^index >= 1.
C8_LargestUnit ==
    formatted # Pending => LargestUnit(bytes, UnitIndexOf(formatted.str))

\* C8 amended: for every integer b >= 1, formatBytes(b) names the largest unit
\* with b / 1024^index >= 1, TB for every b >= 1024^4; for b = 0, where no unit
\* satisfies that, it names B.
C8_LargestUnitOrB ==
    formatted # Pending =>
        IF bytes = <<>> THEN UnitIndexOf(formatted.str) = 0
        ELSE LargestUnit(bytes, UnitIndexOf(formatted.str))

\* 2^111 bytes, 2^71 TB, were formatted in the exponential notation.
FormattedExponential ==
    /\ bytes = BigShl(<<1>>, 111)
    /\ formatted # Pending
    /\ formatted.str = <<"2", ".", "3", "6", "1", "1", "8", "3", "2", "4", "1",
                         "4", "3", "4", "8", "2", "2", "6", "e", "+", "2", "1",
                         " ", "T", "B">>

\* 1024 TB was formatted, in TB.
C8_Witness ==
    /\ bytes = <<0, 0, 0, 0, 0, 1>>
    /\ formatted # Pending
    /\ formatted.str = <<"1", "0", "2", "4", ".", "0", " ", "T", "B">>

\* b = k * 1024^i with k in 1..1023 and i in lo..hi.
IsExactMultiple(b, lo, hi) ==
    /\ Len(b) - 1 \in lo..hi
    /\ \A j \in 1..(Len(b) - 1) : b[j] = 0

\* |x - b| <= 1024^u / 20: x is within half a tenth of unit u of b.
WithinRounding(x, b, u) ==
    LET k == Max(0 - x.e, 0)
        p == BigMul(BigShl(x.q, Max(x.e, 0)), 20)
        q == BigMul(BigShl(b, k), 20)
        t == BigShl(Pow1024(u), k)
    IN ~x.nan /\ ~x.inf /\ BigLeq(p, BigAdd(q, t)) /\ BigLeq(q, BigAdd(p, t))

\* C9: for b = k * 1024^i, k in 1..1023, i in 0..4, parseSizeToBytes of
\* formatBytes(b) is within the one-decimal rounding error of b.
C9_RoundTrip ==
    reparsed # Pending /\ IsExactMultiple(bytes, 0, Len(units) - 1)
        => WithinRounding(reparsed.value, bytes, UnitIndexOf(formatted.str))

\* C9 amended: the same for i in 0..3, the units parseSizeToBytes accepts.
C9_RoundTripBelowTB ==
    reparsed # Pending /\ IsExactMultiple(bytes, 0, Len(units) - 2)
        => WithinRounding(reparsed.value, bytes, UnitIndexOf(formatted.str))

\* 1023 GB went through "1023.0 GB" and came back as 1023 * 1024^3.
C9_Witness ==
    /\ bytes = <<0, 0, 0, 1023>>
    /\ formatted # Pending
    /\ formatted.str = <<"1", "0", "2", "3", ".", "0", " ", "G", "B">>
    /\ reparsed # Pending
    /\ reparsed.value = RoundDyadic(bytes, 0)

(***************************************************************************)
(* debounce: one wrapper returned by debounce(func, wait), the timers of   *)
(* the event loop and a clock.  timeout is the closure's variable: 0 for   *)
(* null, otherwise the handle setTimeout returned.  A timer is a record    *)
(* [id, due, args]; it is in timers from setTimeout until it fires or is   *)
(* cleared.  invocations and calls record what happened: every call of the *)
(* wrapper, and every call of func.                                        *)
(***************************************************************************)
MaxWait == 5
MaxTime == 6
MaxInvocations == 3
ArgValues == {"a", "b"}

\* The handle of the timer still pending for the wrapper, 0 when there is none.
PendingHandle == IF \E t \in timers : t.id = timeout THEN timeout ELSE 0

\* clearTimeout left out.
clearTimeout_Nothing(ts, handle) == ts

\* Lines 11-13: clearTimeout(timeout), which does nothing for a handle that
\* fired already, and is not reached while timeout is null (0 is no handle).
clearTimeout(ts, handle) == {t \in ts : t.id # handle}

\* A later call does not move the deadline: the timer of the first call stays.
schedule_KeepFirst(ts, handle, id, due, args) ==
    IF \E t \in ts : t.id = handle THEN ts
    ELSE ts \cup {[id |-> id, due |-> due, args |-> args]}

\* Lines 11-16: cancel what is pending, then setTimeout(() => func(...args), wait).
schedule(ts, handle, id, due, args) ==
    clearTimeout(ts, handle) \cup {[id |-> id, due |-> due, args |-> args]}

InitDebounce ==
    /\ wait \in 1..MaxWait
    /\ now = 0
    /\ timeout = 0
    /\ timers = {}
    /\ invocations = <<>>
    /\ calls = <<>>
    /\ DirIdle /\ ParseIdle /\ FormatIdle /\ DiskIdle

\* Lines 10-17: the wrapper is called with args.
Invoke(args) ==
    /\ Len(invocations) < MaxInvocations
    /\ now + wait <= MaxTime
    /\ LET id == Len(invocations) + 1
       IN /\ timers' = schedule(timers, timeout, id, now + wait, args)
          /\ timeout' = id
          /\ invocations' = Append(invocations,
                [time |-> now, args |-> args, superseded |-> PendingHandle])
    /\ UNCHANGED <<wait, now, calls, dirVars, parseVars, formatVars, diskVars>>

\* Lines 14-16: the event loop runs the callback of a timer that is due,
\* func(...args).
Fire ==
    /\ \E t \in timers :
          /\ t.due <= now
          /\ timers' = timers \ {t}
          /\ calls' = Append(calls,
                [time |-> now, args |-> t.args, id |-> t.id,
                 seen |-> Len(invocations)])
    /\ UNCHANGED <<wait, now, timeout, invocations,
                   dirVars, parseVars, formatVars, diskVars>>

\* Time passes.  A timer's callback runs when the event loop gets to it, at its
\* due time or later, so time may pass while a timer is due.
Tick ==
    /\ now < MaxTime
    /\ now' = now + 1
    /\ UNCHANGED <<wait, timeout, timers, invocations, calls,
                   dirVars, parseVars, formatVars, diskVars>>

NextDebounce == (\E args \in ArgValues : Invoke(args)) \/ Fire \/ Tick

SpecDebounce == InitDebounce /\ [][NextDebounce]_vars

\* The event loop runs a due timer, and time does not stop.
FairDebounce == SpecDebounce /\ WF_vars(Fire) /\ WF_vars(Tick)

\* C1: a timer that was pending when the wrapper was called again never runs
\* func; every run of func got the arguments of the latest call of the wrapper
\* made before it.
C1_LatestCallOnly ==
    /\ \A i \in 1..Len(invocations) :
          invocations[i].superseded # 0 =>
              \A c \in 1..Len(calls) : calls[c].id # invocations[i].superseded
    /\ \A c \in 1..Len(calls) :
          /\ calls[c].seen >= 1
          /\ calls[c].args = invocations[calls[c].seen].args

\* A call of the wrapper superseded a pending one with other arguments, and
\* func ran afterwards.
C1_Witness ==
    /\ Len(invocations) >= 2
    /\ invocations[2].superseded = 1
    /\ invocations[1].args # invocations[2].args
    /\ Len(calls) >= 1
    /\ calls[1].seen = 2

\* The first call of the last burst: every later call came less than wait
\* after the one before it.
BurstStart ==
    LET n == Len(invocations)
        starts == {i \in 1..n : \A j \in (i + 1)..n :
                      invocations[j].time - invocations[j - 1].time < wait}
    IN CHOOSE i \in starts : \A k \in starts : i <= k

\* The runs of func since the last burst began.
BurstCalls == {c \in 1..Len(calls) : calls[c].seen >= BurstStart}

BurstCalledOnce == invocations # <<>> /\ Cardinality(BurstCalls) = 1

\* Never more than one run of func for the burst, and that one exactly wait
\* after the burst's last call, with its arguments.
BurstSafe ==
    invocations # <<>> =>
        /\ Cardinality(BurstCalls) <= 1
        /\ \A c \in BurstCalls :
              /\ calls[c].time = invocations[Len(invocations)].time + wait
              /\ calls[c].args = invocations[Len(invocations)].args

\* Never more than one run of func for the burst, and that one no earlier than
\* wait after the burst's last call, with its arguments.
BurstSafeNotBefore ==
    invocations # <<>> =>
        /\ Cardinality(BurstCalls) <= 1
        /\ \A c \in BurstCalls :
              /\ calls[c].time >= invocations[Len(invocations)].time + wait
              /\ calls[c].args = invocations[Len(invocations)].args

\* A burst that no further call follows leads to one run of func.
BurstEventuallyCalled ==
    \A n \in 1..MaxInvocations :
        (Len(invocations) = n) ~> (Len(invocations) > n \/ BurstCalledOnce)

\* C2 as stated: a burst of calls less than wait apart, followed by no further
\* call, leads to exactly one run of func, wait after the last call of the
\* burst.
C2_BurstOneTrailingCall == []BurstSafe /\ BurstEventuallyCalled

\* C2: a burst of calls less than wait apart, followed by no further call,
\* leads to exactly one run of func, with the arguments of the burst's last
\* call and no earlier than wait after it.
C2_BurstOneCallNotBefore == []BurstSafeNotBefore /\ BurstEventuallyCalled

\* Calls at 0 and 1 with wait 3 gave one run of func, with the arguments of
\* the second call, at 5: the timer was due at 4 and the event loop was late.
C2_Witness ==
    /\ wait = 3
    /\ Len(invocations) = 2
    /\ \A i \in 1..2 : invocations[i].time = i - 1
    /\ invocations[1].args # invocations[2].args
    /\ Len(calls) = 1
    /\ BurstCalledOnce
    /\ calls[1].time = 5
    /\ calls[1].args = invocations[2].args

(***************************************************************************)
(* getDirectorySize.  A tree is the directory dirPath (node 0) and entries *)
(* 1..n below it; an entry has a parent (0 or an earlier directory), a     *)
(* kind (what its Dirent answers to isDirectory and isFile), and the       *)
(* outcome of the one filesystem call made on it, whenever that call is    *)
(* made: readdir for a directory (fails), stat for a regular file (fails   *)
(* or size).  order is the order in which readdir lists the entries.       *)
(* The function is async: stack holds the activations of getDirectorySize  *)
(* that are suspended at an await, the innermost last, and every action is *)
(* the code that runs when one await settles, up to the next await.        *)
(***************************************************************************)
MaxEntries == 3

\* Entry i, when a regular file, has a size of its own: 100, 200, 400, ...
SizeOf(i) == 100 * Pow2(i - 1)

EntryKinds == {"dir", "file", "other"}
Entry(parent, kind, fails, size) ==
    [parent |-> parent, kind |-> kind, fails |-> fails, size |-> size]

EntriesOf(n) ==
    {es \in [1..n -> [parent : 0..(n - 1), kind : EntryKinds, fails : BOOLEAN]] :
        \A i \in 1..n :
            /\ es[i].parent < i
            /\ es[i].parent # 0 => es[es[i].parent].kind = "dir"
            /\ es[i].kind = "other" => ~es[i].fails}

Trees ==
    {[rootFails |-> rf,
      entries |-> [i \in DOMAIN es |->
                      Entry(es[i].parent, es[i].kind, es[i].fails, SizeOf(i))]] :
        rf \in BOOLEAN, es \in UNION {EntriesOf(n) : n \in 0..MaxEntries}}

\* The listing orders of n entries.
Orders(n) == {o \in [1..n -> 1..n] : \A i, j \in 1..n : o[i] = o[j] => i = j}

\* fs.readdir(d) throws.
ReaddirFails(tr, d) == IF d = 0 THEN tr.rootFails ELSE tr.entries[d].fails

\* fs.readdir(d, {withFileTypes: true}): the entries of d, in listing order.
readdir(tr, ord, d) ==
    LET InD(e) == tr.entries[e].parent = d
    IN SelectSeq(ord, InD)

\* What a call of getDirectorySize ends with: a returned total, or an
\* exception reaching the caller.
Returned(totalSize) == [threw |-> FALSE, total |-> totalSize]
Thrown == [threw |-> TRUE, total |-> 0]

\* The catch block passing the error on.
onReaddirError_Rethrow(totalSize) == Thrown

\* Lines 63-67: the catch block logs, and the function returns totalSize.
onReaddirError(totalSize) == Returned(totalSize)

\* An activation of getDirectorySize(dir): the local variables, the index i of
\* the item the loop is at, the await it is suspended at, and the result of
\* the recursive call once that has settled.
Frame(dir) ==
    [dir |-> dir, items |-> <<>>, i |-> 0, totalSize |-> 0,
     awaiting |-> "readdir", sub |-> Returned(0)]

Top(stk) == stk[Len(stk)]
WithTop(stk, f) == [stk EXCEPT ![Len(stk)] = f]

\* Line 67 (or an exception leaving the function): the innermost activation
\* ends with r, which settles the promise its caller awaits.
settle(stk, r) ==
    LET rest == SubSeq(stk, 1, Len(stk) - 1)
    IN IF rest = <<>>
       THEN [stack |-> <<>>, result |-> [state |-> "done"] @@ r]
       ELSE [stack |-> WithTop(rest, [Top(rest) EXCEPT !.sub = r]), result |-> Pending]

RECURSIVE forLoop(_, _)
\* Lines 49-62 and 67: the loop from item i of the innermost activation, up
\* to the next await or to the return.
forLoop(tr, stk) ==
    LET f == Top(stk)
    IN IF f.i > Len(f.items) THEN settle(stk, Returned(f.totalSize))
       ELSE LET item == tr.entries[f.items[f.i]]
            IN CASE item.kind = "dir" ->
                       [stack |-> Append(WithTop(stk, [f EXCEPT !.awaiting = "call"]),
                                         Frame(f.items[f.i])),
                        result |-> Pending]
                 [] item.kind = "file" ->
                       [stack |-> WithTop(stk, [f EXCEPT !.awaiting = "stat"]),
                        result |-> Pending]
                 [] OTHER -> forLoop(tr, WithTop(stk, [f EXCEPT !.i = f.i + 1]))

\* No inner try: the stat error reaches the outer catch and ends the loop.
onStatError_Abort(tr, stk) == settle(stk, onReaddirError(Top(stk).totalSize))

\* Lines 58-60: the inner catch warns, and the loop goes on.
onStatError(tr, stk) ==
    forLoop(tr, WithTop(stk, [Top(stk) EXCEPT !.i = Top(stk).i + 1]))

InitDir ==
    /\ tree \in Trees
    /\ order \in Orders(Len(tree.entries))
    /\ dirPath = 0
    /\ stack = <<>>
    /\ dirResult = Pending
    /\ DebounceIdle /\ ParseIdle /\ FormatIdle /\ DiskIdle

\* Lines 43-47: the call runs to await fs.readdir(dirPath).
CallGetDirectorySize ==
    /\ dirResult = Pending /\ stack = <<>>
    /\ stack' = <<Frame(dirPath)>>
    /\ UNCHANGED <<tree, order, dirPath, dirResult,
                   debounceVars, parseVars, formatVars, diskVars>>

\* The code run when an await settles leaves the stack and the result in next.
Resume(next) ==
    /\ stack' = next.stack
    /\ dirResult' = next.result
    /\ UNCHANGED <<tree, order, dirPath, debounceVars, parseVars, formatVars, diskVars>>

\* Line 47: fs.readdir settles; the items are listed or the outer catch runs.
ReaddirSettles ==
    /\ stack # <<>> /\ Top(stack).awaiting = "readdir"
    /\ LET f == Top(stack)
       IN Resume(IF ReaddirFails(tree, f.dir)
                 THEN settle(stack, onReaddirError(f.totalSize))
                 ELSE forLoop(tree, WithTop(stack,
                          [f EXCEPT !.items = readdir(tree, order, f.dir),
                                    !.i = 1, !.awaiting = "none"])))

\* Lines 56-60: fs.stat of a regular file settles.
StatSettles ==
    /\ stack # <<>> /\ Top(stack).awaiting = "stat"
    /\ LET f == Top(stack)
           item == tree.entries[f.items[f.i]]
       IN Resume(IF item.fails THEN onStatError(tree, stack)
                 ELSE forLoop(tree, WithTop(stack,
                          [f EXCEPT !.totalSize = f.totalSize + item.size,
                                    !.i = f.i + 1, !.awaiting = "none"])))

\* Line 53: the recursive call has settled and the caller goes on.
SubdirectorySettles ==
    /\ stack # <<>> /\ Top(stack).awaiting = "call"
    /\ LET f == Top(stack)
       IN Resume(IF f.sub.threw THEN settle(stack, onReaddirError(f.totalSize))
                 ELSE forLoop(tree, WithTop(stack,
                          [f EXCEPT !.totalSize = f.totalSize + f.sub.total,
                                    !.i = f.i + 1, !.awaiting = "none"])))

NextDir ==
    CallGetDirectorySize \/ ReaddirSettles \/ StatSettles \/ SubdirectorySettles

SpecDir == InitDir /\ [][NextDir]_vars

RECURSIVE SumOver(_, _)
\* The sum of the sizes of a set of entries.
SumOver(tr, set) ==
    IF set = {} THEN 0
    ELSE LET e == CHOOSE x \in set : TRUE
         IN tr.entries[e].size + SumOver(tr, set \ {e})

AllEntries == 1..Len(tree.entries)
ReadableFiles ==
    {e \in AllEntries : tree.entries[e].kind = "file" /\ ~tree.entries[e].fails}
AllListable ==
    /\ ~tree.rootFails
    /\ \A e \in AllEntries : tree.entries[e].kind = "dir" => ~tree.entries[e].fails

RECURSIVE Listed(_)
\* Every directory from e's parent up to dirPath can be listed.
Listed(e) ==
    LET p == tree.entries[e].parent
    IN IF p = 0 THEN ~tree.rootFails ELSE ~tree.entries[p].fails /\ Listed(p)

RECURSIVE Depth(_)
Depth(e) == IF tree.entries[e].parent = 0 THEN 1 ELSE 1 + Depth(tree.entries[e].parent)

\* C3: when every directory can be listed, the result is the sum of the sizes
\* of the regular files whose stat succeeds, at any depth, in any listing
\* order; other entries and files whose stat fails add nothing.
C3_SumOfReadableFiles ==
    dirResult # Pending /\ AllListable
        => /\ ~dirResult.threw
           /\ dirResult.total = SumOver(tree, ReadableFiles)

\* A file two levels down was counted although a file whose stat fails and an
\* entry that is neither file nor directory were met.
C3_Witness ==
    /\ dirResult # Pending /\ AllListable
    /\ \E e \in ReadableFiles : Depth(e) = 2
    /\ \E e \in AllEntries : tree.entries[e].kind = "file" /\ tree.entries[e].fails
    /\ dirResult.total > 0

\* C4: getDirectorySize never raises, the recursive calls included; it returns
\* 0 when dirPath cannot be listed; a subdirectory that cannot be listed adds 0, and the readable files
\* of every directory that was listed are all counted.
C4_UnlistableAddsZero ==
    /\ \A k \in 1..Len(stack) : ~stack[k].sub.threw
    /\ dirResult # Pending =>
        /\ ~dirResult.threw
        /\ tree.rootFails => dirResult.total = 0
        /\ dirResult.total = SumOver(tree, {e \in ReadableFiles : Listed(e)})

\* A subdirectory that cannot be listed was met between two files, both counted.
C4_Witness ==
    /\ dirResult # Pending
    /\ Len(order) = 3
    /\ tree.entries[order[2]].kind = "dir" /\ tree.entries[order[2]].fails
    /\ \A k \in {1, 3} : order[k] \in ReadableFiles /\ tree.entries[order[k]].parent = 0
    /\ dirResult.total = tree.entries[order[1]].size + tree.entries[order[3]].size

(***************************************************************************)
(* getAvailableDiskSpace.  The function is async: the call runs to         *)
(* await fs.statfs(path), and goes on when the query settles, resolved     *)
(* with bavail and bsize or rejected with an error.  statfs is the query:  *)
(* not made, in flight, or settled with its outcome.                       *)
(***************************************************************************)
MaxBlocks == 40
BlockSizes == {512, 1024, 4096}
StatfsErrors == {"ENOENT", "EACCES", "ENOSYS"}

StatfsOutcomes ==
    {[state |-> "settled", ok |-> TRUE, bavail |-> a, bsize |-> s, error |-> "none"] :
        a \in 0..MaxBlocks, s \in BlockSizes}
    \cup {[state |-> "settled", ok |-> FALSE, bavail |-> 0, bsize |-> 0, error |-> e] :
            e \in StatfsErrors}

InFlight == [state |-> "in flight"]

null == [type |-> "null", n |-> 0]
number(n) == [type |-> "number", n |-> n]

\* The catch block returning 0 where it should return null.
onStatfsError_Zero(outcome) ==
    [state |-> "done", threw |-> FALSE, value |-> number(0),
     errors |-> <<outcome.error>>]

\* Lines 32-35: the catch block logs with console.error and returns null.
onStatfsError(outcome) ==
    [state |-> "done", threw |-> FALSE, value |-> null,
     errors |-> <<outcome.error>>]

\* Lines 29-35: what the function does once fs.statfs has settled.
getAvailableDiskSpace(outcome) ==
    IF outcome.ok
    THEN [state |-> "done", threw |-> FALSE,
          value |-> number(outcome.bavail * outcome.bsize), errors |-> <<>>]
    ELSE onStatfsError(outcome)

InitDisk ==
    /\ statfs = Pending
    /\ diskResult = Pending
    /\ DebounceIdle /\ DirIdle /\ ParseIdle /\ FormatIdle

\* Lines 27-29: the call runs to await fs.statfs(path).
CallGetAvailableDiskSpace ==
    /\ statfs = Pending
    /\ statfs' = InFlight
    /\ UNCHANGED <<diskResult, debounceVars, dirVars, parseVars, formatVars>>

\* Line 29: fs.statfs settles, with whatever the filesystem answers then, and
\* the function returns.
StatfsSettles ==
    /\ statfs = InFlight
    /\ \E outcome \in StatfsOutcomes :
          /\ statfs' = outcome
          /\ diskResult' = getAvailableDiskSpace(outcome)
    /\ UNCHANGED <<debounceVars, dirVars, parseVars, formatVars>>

NextDisk == CallGetAvailableDiskSpace \/ StatfsSettles

SpecDisk == InitDisk /\ [][NextDisk]_vars

\* C10: getAvailableDiskSpace never raises; a successful query returns available
\* blocks times block size, a number even when it is 0; a failed query is
\* logged and returns null, which no successful query returns.
C10_NullOnlyOnFailure ==
    diskResult # Pending =>
        /\ ~diskResult.threw
        /\ statfs.ok =>
              /\ diskResult.value.type = "number"
              /\ diskResult.value.n = statfs.bavail * statfs.bsize
              /\ diskResult.errors = <<>>
        /\ ~statfs.ok =>
              /\ diskResult.value = null
              /\ diskResult.errors = <<statfs.error>>
        /\ \A other \in StatfsOutcomes :
              other.ok # statfs.ok => getAvailableDiskSpace(other).value # diskResult.value

\* The query on a missing path failed and null came back.
C10_Witness ==
    /\ diskResult # Pending
    /\ statfs.error = "ENOENT"
    /\ diskResult.value = null
    /\ ~diskResult.threw

====
